---- MODULE Spec2Model ----
(***************************************************************************)
(* coronaviz.backend.data.uk.covid: GovUKCoronavirusData, the paginated    *)
(* dataset fetcher.  One call of get_paginated_dataset (entered directly   *)
(* or through get_latest_data) is a state machine: it builds its query     *)
(* parameters, then walks the pages one blocking GET at a time, and ends   *)
(* by returning the aggregated data or by raising.  The server is the      *)
(* environment: each answer is chosen when it is received and logged.      *)
(*                                                                         *)
(* Text is a sequence of atoms (strings); "\n" and " " are the whitespace  *)
(* atoms str.split and str.strip look at.                                  *)
(***************************************************************************)
EXTENDS Integers, Sequences, FiniteSets, TLC

\* Largest page number a call requests before the model stops exploring.
MaxPage == 3

\* http.HTTPStatus members the loop compares the status code with.
BAD_REQUEST == 400
NO_CONTENT == 204

NL == "\n"
SP == " "
Whitespace == {NL, SP}

----------------------------------------------------------------------------
(* Python built-ins used by the source, computed as Python computes them.  *)

\* str.join(sep, parts): the parts with sep between neighbours.
RECURSIVE Join(_, _)
Join(sep, parts) ==
    IF parts = <<>> THEN <<>>
    ELSE IF Len(parts) = 1 THEN parts[1]
    ELSE parts[1] \o sep \o Join(sep, Tail(parts))

\* text.split(sep) for a one-atom separator: always at least one piece.
RECURSIVE Split(_, _)
Split(text, sep) ==
    IF \A i \in 1..Len(text) : text[i] # sep THEN <<text>>
    ELSE LET i == CHOOSE j \in 1..Len(text) :
                      text[j] = sep /\ \A k \in 1..(j - 1) : text[k] # sep
         IN  <<SubSeq(text, 1, i - 1)>> \o Split(SubSeq(text, i + 1, Len(text)), sep)

\* xs[1:]
SliceFrom1(xs) == IF xs = <<>> THEN <<>> ELSE Tail(xs)

\* text.strip(): leading and trailing whitespace removed.
RECURSIVE LStrip(_)
LStrip(text) ==
    IF text # <<>> /\ text[1] \in Whitespace THEN LStrip(Tail(text)) ELSE text

RECURSIVE RStrip(_)
RStrip(text) ==
    IF text # <<>> /\ text[Len(text)] \in Whitespace
    THEN RStrip(SubSeq(text, 1, Len(text) - 1))
    ELSE text

Strip(text) == RStrip(LStrip(text))

\* A dict item of a structure: the value is a string or a nested dict.
StrItem(k, v) == [key |-> k, isdict |-> FALSE, str |-> v, items |-> <<>>]
DictItem(k, sub) == [key |-> k, isdict |-> TRUE, str |-> "", items |-> sub]

Quoted(s) == <<"\"", s, "\"">>

\* json.dumps(obj, separators=(item_sep, key_sep)) of a dict of strings and
\* dicts, given as its items in insertion order.
RECURSIVE DumpsItems(_, _, _)
RECURSIVE Dumps(_, _, _)
DumpsItems(items, item_sep, key_sep) ==
    IF items = <<>> THEN <<>>
    ELSE LET it == items[1]
             val == IF it.isdict THEN Dumps(it.items, item_sep, key_sep)
                    ELSE Quoted(it.str)
             one == Quoted(it.key) \o key_sep \o val
         IN  IF Len(items) = 1 THEN one
             ELSE one \o item_sep \o DumpsItems(Tail(items), item_sep, key_sep)
Dumps(items, item_sep, key_sep) ==
    <<"{">> \o DumpsItems(items, item_sep, key_sep) \o <<"}">>

\* A dict display {k1: v1, k2: v2, ...}: a repeated key keeps its first
\* position and takes its last value.
RECURSIVE DictLiteral(_)
DictLiteral(pairs) ==
    IF pairs = <<>> THEN <<>>
    ELSE LET init == DictLiteral(SubSeq(pairs, 1, Len(pairs) - 1))
             last == pairs[Len(pairs)]
         IN  IF \E i \in 1..Len(init) : init[i].key = last.key
             THEN [i \in 1..Len(init) |->
                      IF init[i].key = last.key THEN last ELSE init[i]]
             ELSE Append(init, last)

Same(k) == StrItem(k, k)

----------------------------------------------------------------------------
(* Class constants.                                                        *)

AreaTypeEnum == [OVERVIEW |-> "overview", NATION |-> "nation",
                 REGION |-> "region", NHS_REGION |-> "nhsRegion",
                 UPPER_TIER_LOCAL_AUTHORITY |-> "utla",
                 LOWER_TIER_LOCAL_AUTHORITY |-> "ltla"]

DEFAULT_QUERY_STRUCTURE ==
    DictLiteral(<<
        Same("areaType"), Same("areaName"), Same("areaCode"), Same("date"),
        Same("hash"), Same("newCasesByPublishDate"),
        Same("cumCasesByPublishDate"), Same("cumCasesBySpecimenDateRate"),
        Same("newCasesBySpecimenDate"), Same("cumCasesBySpecimenDateRate"),
        Same("cumCasesBySpecimenDate"), Same("maleCases"), Same("femaleCases"),
        Same("newPillarOneTestsByPublishDate"),
        Same("cumPillarOneTestsByPublishDate"),
        Same("newPillarTwoTestsByPublishDate"),
        Same("cumPillarTwoTestsByPublishDate"),
        Same("newPillarThreeTestsByPublishDate"),
        Same("cumPillarThreeTestsByPublishDate"),
        Same("newPillarFourTestsByPublishDate"),
        Same("cumPillarFourTestsByPublishDate"),
        Same("newAdmissions"), Same("cumAdmissions"),
        Same("cumAdmissionsByAge"), Same("cumTestsByPublishDate"),
        Same("newTestsByPublishDate"), Same("covidOccupiedMVBeds"),
        Same("hospitalCases"), Same("plannedCapacityByPublishDate"),
        Same("newDeaths28DaysByPublishDate"),
        Same("cumDeaths28DaysByPublishDate"),
        Same("cumDeaths28DaysByPublishDateRate"),
        Same("newDeaths28DaysByDeathDate"),
        Same("cumDeaths28DaysByDeathDate"),
        Same("cumDeaths28DaysByDeathDateRate") >>)

----------------------------------------------------------------------------
(* The callers' arguments and the server's answers the model draws from.   *)

\* Optional[...] arguments of get_latest_data.
NoArg == [is_none |-> TRUE, value |-> <<>>]
Arg(v) == [is_none |-> FALSE, value |-> v]

\* Python's None, as the value of a JSON null.
None == "None"

F_nation == <<"areaType=", "nation">>
F_code == <<"areaCode=", "E92000001">>
F_region == <<"areaType=", "region">>

\* Filter lists: one out of alphabetical order, one with a repeated predicate.
FilterArgs == { <<F_nation, F_code>>, <<F_region, F_region>> }

S_flat == <<StrItem("date", "date"), StrItem("name", "areaName")>>
S_nested == <<StrItem("date", "date"),
              DictItem("cases", <<StrItem("new", "newCasesByPublishDate")>>)>>
StructureArgs == { S_flat, S_nested }

\* get_latest_data's arguments: omitted, given, and given empty.
LatestFilterArgs == { NoArg, Arg(<<F_nation, F_code>>), Arg(<<>>) }
LatestStructureArgs == { NoArg, Arg(S_nested) }

R1 == [areaCode |-> "E12000007", newCasesByPublishDate |-> 1]
R2 == [areaCode |-> "E12000008", newCasesByPublishDate |-> 2]
PageData == { <<>>, <<R1>>, <<R2, R1>> }

Cursor == "/v1/data?page=next"

\* What response.json() yields for a JSON object body: which of the fields
\* the loop looks up are present, and their values.
Doc(hd, d, hp, hn, n) ==
    [has_data |-> hd, data |-> d, has_pagination |-> hp, has_next |-> hn, next |-> n]
NoDoc == Doc(FALSE, <<>>, FALSE, FALSE, None)

JsonDocs ==
    { Doc(TRUE, d, TRUE, TRUE, n) : d \in PageData, n \in {None, Cursor} }
    \cup { Doc(TRUE, d, TRUE, FALSE, None) : d \in PageData }
    \cup { Doc(TRUE, <<R1>>, FALSE, FALSE, None) }
    \cup { Doc(FALSE, <<>>, TRUE, TRUE, n) : n \in {None, Cursor} }

\* A response: status_code, the body text (response.text, and
\* response.content.decode() for the UTF-8 bodies drawn here), and whether
\* the body parses as JSON (and to what).
Response(st, txt, isj, doc) ==
    [status_code |-> st, text |-> txt, is_json |-> isj, json |-> doc]

ErrorStatuses == { 400, 404 }
ErrorTexts == { <<"Not Found">>, <<>> }

Hdr == "a,b"
Row1 == "1,2"
Row2 == "3,4"

\* CSV bodies are written from lines, with or without a final newline: an
\* empty body, a header alone, and a header with data lines.
CsvPages == { <<>>, <<Hdr>>, <<Hdr, Row1>>, <<Hdr, Row2, Row1>> }
Render(ls) == Join(<<NL>>, [i \in 1..Len(ls) |-> <<ls[i]>>])
CsvBodies ==
    { Render(<<>>), Render(<<Hdr>>), Render(<<Hdr>>) \o <<NL>>,
      Render(<<Hdr, Row1>>) \o <<NL>>, Render(<<Hdr, Row2, Row1>>) }

StopResponses ==
    { Response(NO_CONTENT, <<>>, FALSE, NoDoc) }
    \cup { Response(st, t, FALSE, NoDoc) : st \in ErrorStatuses, t \in ErrorTexts }

\* Data pages come with status 200 and, for some, with 399, the largest
\* status below BAD_REQUEST.
JsonResponses ==
    { Response(200, <<"{json}">>, TRUE, d) : d \in JsonDocs }
    \cup { Response(399, <<"{json}">>, TRUE, Doc(TRUE, <<R1>>, TRUE, TRUE, n)) :
              n \in {None, Cursor} }
    \cup { Response(200, <<"<html>">>, FALSE, NoDoc) }
    \cup StopResponses

CsvResponses ==
    { Response(200, b, FALSE, NoDoc) : b \in CsvBodies }
    \cup { Response(399, Render(<<Hdr, Row1>>) \o <<NL>>, FALSE, NoDoc) }
    \cup StopResponses

\* Ways requests.get ends without a response.
GetExceptions == { "Timeout", "ConnectionError" }

----------------------------------------------------------------------------
(* State of one call.                                                      *)

VARIABLES
    pc,           \* "idle", "loop" (top of while), "get" (request outstanding),
                  \* "returned", "raised"
    call,         \* the entry point called and the arguments it was given
    filters,      \* get_paginated_dataset's parameters
    structure,
    as_csv,
    api_params,   \* the query parameters dict
    data,         \* accumulated records (JSON) or page blobs (CSV)
    page_number,
    requests,     \* params of every GET issued, in order
    responses,    \* every response received, in order
    outcome       \* what the call returned or raised

\* State of the boundary-data modules (nhs_regions, uk_regions) and their
\* cache files.
VARIABLES
    files,          \* filepath -> the file: whether it exists, and its text
    lpc,            \* "idle", "except" (in the IOError handler, before the
                    \* download), "loaded", "failed"
    cls,            \* the class whose body is executing or was executed last
    boundary_data,  \* the class attribute data
    loads           \* one entry per class body executed to its end

\* A second call of get_paginated_dataset, interleaved with the first.
VARIABLES
    running,      \* which call's frame the variables of one call hold
    parked        \* the frame of the other call

callVars == <<pc, call, filters, structure, as_csv, api_params, data,
              page_number, requests, responses, outcome>>
boundaryVars == <<files, lpc, cls, boundary_data, loads>>
threadVars == <<running, parked>>

vars == <<callVars, boundaryVars, threadVars>>

Pending == [kind |-> "pending", value |-> <<>>, exc |-> "", message |-> <<>>]
Return(v) == [kind |-> "return", value |-> v, exc |-> "", message |-> <<>>]
Raise(e, m) == [kind |-> "raise", value |-> <<>>, exc |-> e, message |-> m]

\* No call has been made.
NoCall ==
    /\ pc = "idle"
    /\ call = [entry |-> "", filters |-> NoArg, structure |-> NoArg]
    /\ filters = <<>>
    /\ structure = <<>>
    /\ as_csv = FALSE
    /\ api_params = [filters |-> <<>>, structure |-> <<>>, format |-> ""]
    /\ data = <<>>
    /\ page_number = 0
    /\ requests = <<>>
    /\ responses = <<>>
    /\ outcome = Pending

\* The frame of a call not made yet.
NoFrame ==
    [pc |-> "idle",
     call |-> [entry |-> "", filters |-> NoArg, structure |-> NoArg],
     filters |-> <<>>, structure |-> <<>>, as_csv |-> FALSE,
     api_params |-> [filters |-> <<>>, structure |-> <<>>, format |-> ""],
     data |-> <<>>, page_number |-> 0, requests |-> <<>>, responses |-> <<>>,
     outcome |-> Pending]

\* A single call; nothing else runs beside it.
OneCall == running = 1 /\ parked = NoFrame

\* A file that does not exist, and one holding the given text.
Absent == [exists |-> FALSE, text |-> <<>>]
File(t) == [exists |-> TRUE, text |-> t]

Filepaths == { "nhs_regions.geojson", "regions.geojson" }

\* No boundary module has been imported and no cache file exists.
NoImport ==
    /\ files = [p \in Filepaths |-> Absent]
    /\ lpc = "idle"
    /\ cls = ""
    /\ boundary_data = <<>>
    /\ loads = <<>>

Init == NoCall /\ NoImport /\ OneCall

\* (variant) json.dumps with its default separators.
InitialParamsDefaultSeparators(f, s, csv) ==
    [filters |-> Join(<<";">>, f),
     structure |-> Dumps(s, <<",", SP>>, <<":", SP>>),
     format |-> IF ~csv THEN "json" ELSE "csv"]

\* The dict built before the loop.
InitialParams(f, s, csv) ==
    [filters |-> Join(<<";">>, f),
     structure |-> Dumps(s, <<",">>, <<":">>),
     format |-> IF ~csv THEN "json" ELSE "csv"]

\* Entry of get_paginated_dataset up to the top of the loop.
Enter(f, s, csv) ==
    /\ filters' = f
    /\ structure' = s
    /\ as_csv' = csv
    /\ api_params' = InitialParams(f, s, csv)
    /\ data' = <<>>
    /\ page_number' = 1
    /\ pc' = "loop"
    /\ UNCHANGED <<requests, responses, outcome>>
    /\ UNCHANGED <<boundaryVars, threadVars>>

get_paginated_dataset(f, s, csv) ==
    /\ pc = "idle"
    /\ call' = [entry |-> "get_paginated_dataset", filters |-> Arg(f),
                structure |-> Arg(s)]
    /\ Enter(f, s, csv)

\* (variant) the caller's structure is ignored.
get_latest_data_default_structure(f, s) ==
    /\ pc = "idle"
    /\ call' = [entry |-> "get_latest_data", filters |-> f, structure |-> s]
    /\ Enter(IF f.is_none THEN << <<"areaType=", AreaTypeEnum.REGION>> >> ELSE f.value,
             DEFAULT_QUERY_STRUCTURE,
             FALSE)

\* as_csv is left at its default.
get_latest_data(f, s) ==
    /\ pc = "idle"
    /\ call' = [entry |-> "get_latest_data", filters |-> f, structure |-> s]
    /\ Enter(IF f.is_none THEN << <<"areaType=", AreaTypeEnum.REGION>> >> ELSE f.value,
             IF s.is_none THEN DEFAULT_QUERY_STRUCTURE ELSE s.value,
             FALSE)

\* api_params["page"] = page_number
WithPage(params, n) ==
    [k \in DOMAIN params \cup {"page"} |-> IF k = "page" THEN n ELSE params[k]]

\* Top of the loop: set the page parameter and issue the GET.
IssueRequest ==
    /\ pc = "loop"
    /\ page_number <= MaxPage
    /\ api_params' = WithPage(api_params, page_number)
    /\ requests' = Append(requests, api_params')
    /\ pc' = "get"
    /\ UNCHANGED <<call, filters, structure, as_csv, data, page_number,
                   responses, outcome>>
    /\ UNCHANGED <<boundaryVars, threadVars>>

\* (variant) a failed GET is caught and the pages fetched so far returned.
GetReturnsPartial(e) ==
    /\ pc = "get"
    /\ outcome' = Return(IF ~as_csv THEN data ELSE Join(<<NL>>, data))
    /\ pc' = "returned"
    /\ UNCHANGED <<call, filters, structure, as_csv, api_params, data,
                   page_number, requests, responses>>
    /\ UNCHANGED <<boundaryVars, threadVars>>

\* requests.get raises instead of returning a response.
GetRaises(e) ==
    /\ pc = "get"
    /\ outcome' = Raise(e, <<>>)
    /\ pc' = "raised"
    /\ UNCHANGED <<call, filters, structure, as_csv, api_params, data,
                   page_number, requests, responses>>
    /\ UNCHANGED <<boundaryVars, threadVars>>

\* The statement after the loop.
ReturnValue(csv, d) == IF ~csv THEN d ELSE Join(<<NL>>, d)

\* (variant) the header is kept on every page.
CsvBlobKeepHeader(content, n) == Strip(content)

\* The blob a CSV page adds to data.
CsvBlob(content, n) ==
    LET csv_content == IF n > 1
                       THEN Join(<<NL>>, SliceFrom1(Split(content, NL)))
                       ELSE content
    IN  Strip(csv_content)

\* break: leave the loop and return.
Break(d) ==
    /\ data' = d
    /\ outcome' = Return(ReturnValue(as_csv, d))
    /\ pc' = "returned"
    /\ UNCHANGED page_number

\* An exception leaves the call; data is as the loop body left it.
Throw(e, m, d) ==
    /\ data' = d
    /\ outcome' = Raise(e, m)
    /\ pc' = "raised"
    /\ UNCHANGED page_number

\* (variant) the page counter is advanced twice.
NextPageSkips(d) ==
    /\ data' = d
    /\ page_number' = page_number + 2
    /\ pc' = "loop"
    /\ UNCHANGED outcome

\* (variant) the page counter is not advanced.
NextPageSame(d) ==
    /\ data' = d
    /\ page_number' = page_number
    /\ pc' = "loop"
    /\ UNCHANGED outcome

\* Fall through to (or continue at) the next iteration.
NextPage(d) ==
    /\ data' = d
    /\ page_number' = page_number + 1
    /\ pc' = "loop"
    /\ UNCHANGED outcome

\* (variant) the comparison is strict: 400 itself passes.
IsErrorStrict(response) == response.status_code > BAD_REQUEST

\* The two status checks at the top of the loop body.
IsError(response) == response.status_code >= BAD_REQUEST

\* (variant) the 204 check is missing.
IsNoContentMissing(response) == FALSE

\* (variant) every status other than 200 ends the loop.
IsNoContentNot200(response) == response.status_code # 200

IsNoContent(response) == response.status_code = NO_CONTENT

\* The RuntimeError's message.
ErrorMessage(response) == <<"Request failed: ">> \o response.text

\* (variant) data.append(page_data): the page's list is nested, not merged.
ExtendNested(d, page_data) == Append(d, page_data)

\* data.extend(page_data)
Extend(d, page_data) == d \o page_data

\* current_data["pagination"]["next"] is None
IsLastPage(current_data) == current_data.next = None

\* (variant) an empty CSV page ends the loop without waiting for the 204.
CsvPageStopsOnEmpty(response) ==
    IF Strip(response.text) = <<>>
    THEN Break(data)
    ELSE NextPage(Append(data, CsvBlob(response.text, page_number)))

\* The CSV branch of the loop body: append the blob, advance, continue.
CsvPage(response) ==
    NextPage(Append(data, CsvBlob(response.text, page_number)))

\* (variant) a missing pagination.next is read as None, as .get() would.
JsonPageLenient(response) ==
    IF ~response.is_json
    THEN Throw("JSONDecodeError", <<>>, data)
    ELSE IF ~response.json.has_data
    THEN Throw("KeyError", <<"data">>, data)
    ELSE LET extended == Extend(data, response.json.data)
         IN  IF ~response.json.has_pagination \/ ~response.json.has_next
             THEN Break(extended)
             ELSE IF IsLastPage(response.json)
             THEN Break(extended)
             ELSE NextPage(extended)

\* (variant) a failed parse or lookup is caught and ends the loop.
JsonPageSwallow(response) ==
    IF ~response.is_json \/ ~response.json.has_data
    THEN Break(data)
    ELSE LET extended == Extend(data, response.json.data)
         IN  IF ~response.json.has_pagination \/ ~response.json.has_next
             THEN Break(data)
             ELSE IF IsLastPage(response.json)
             THEN Break(extended)
             ELSE NextPage(extended)

\* The JSON part of the loop body: parse, look up data, extend, look up
\* pagination.next, then break or advance.  A failed parse or lookup raises.
JsonPage(response) ==
    IF ~response.is_json
    THEN Throw("JSONDecodeError", <<>>, data)
    ELSE IF ~response.json.has_data
    THEN Throw("KeyError", <<"data">>, data)
    ELSE LET extended == Extend(data, response.json.data)
         IN  IF ~response.json.has_pagination
             THEN Throw("KeyError", <<"pagination">>, extended)
             ELSE IF ~response.json.has_next
             THEN Throw("KeyError", <<"next">>, extended)
             ELSE IF IsLastPage(response.json)
             THEN Break(extended)
             ELSE NextPage(extended)

\* The loop body from the status checks on, for the response received.
HandleResponse(response) ==
    /\ pc = "get"
    /\ responses' = Append(responses, response)
    /\ UNCHANGED <<call, filters, structure, as_csv, api_params, requests>>
    /\ UNCHANGED <<boundaryVars, threadVars>>
    /\ IF IsError(response)
       THEN Throw("RuntimeError", ErrorMessage(response), data)
       ELSE IF IsNoContent(response)
       THEN Break(data)
       ELSE IF as_csv
       THEN CsvPage(response)
       ELSE JsonPage(response)

Next ==
    \/ \E f \in FilterArgs, s \in StructureArgs, csv \in BOOLEAN :
          get_paginated_dataset(f, s, csv)
    \/ \E f \in LatestFilterArgs, s \in LatestStructureArgs :
          get_latest_data(f, s)
    \/ IssueRequest
    \/ \E e \in GetExceptions : GetRaises(e)
    \/ \E r \in (IF as_csv THEN CsvResponses ELSE JsonResponses) : HandleResponse(r)

Spec == Init /\ [][Next]_vars

----------------------------------------------------------------------------
(* The same call against a server with finitely many pages: every page      *)
(* number beyond LastDataPage is answered with 204 or an error status.  The *)
(* GET is a blocking call with a timeout, so a pending request always ends  *)
(* in a response or an exception, and the loop then goes on by itself.      *)

LastDataPage == MaxPage - 1

Answers(n) ==
    IF n > LastDataPage THEN StopResponses
    ELSE IF as_csv THEN CsvResponses ELSE JsonResponses

\* requests.get comes back: with a response, which the loop body handles, or
\* with an exception.
GetComesBack ==
    \/ \E r \in Answers(page_number) : HandleResponse(r)
    \/ \E e \in GetExceptions : GetRaises(e)

NextFinite ==
    \/ \E f \in FilterArgs, s \in StructureArgs, csv \in BOOLEAN :
          get_paginated_dataset(f, s, csv)
    \/ \E f \in LatestFilterArgs, s \in LatestStructureArgs :
          get_latest_data(f, s)
    \/ IssueRequest
    \/ GetComesBack

SpecFinite ==
    /\ Init
    /\ [][NextFinite]_vars
    /\ WF_vars(IssueRequest)
    /\ WF_vars(GetComesBack)

----------------------------------------------------------------------------
(* Two calls of get_paginated_dataset on two threads.  The variables of    *)
(* one call hold the frame of the thread that runs; the other thread's     *)
(* frame is parked.  A thread switch may come between any two steps.       *)

\* The frame of the running call: its parameters and locals.
Frame ==
    [pc |-> pc, call |-> call, filters |-> filters, structure |-> structure,
     as_csv |-> as_csv, api_params |-> api_params, data |-> data,
     page_number |-> page_number, requests |-> requests,
     responses |-> responses, outcome |-> outcome]

\* (variant) data is one list shared by all calls, not a local.
SwitchSharedData ==
    /\ running' = 3 - running
    /\ parked' = Frame
    /\ pc' = parked.pc
    /\ call' = parked.call
    /\ filters' = parked.filters
    /\ structure' = parked.structure
    /\ as_csv' = parked.as_csv
    /\ api_params' = parked.api_params
    /\ data' = data
    /\ page_number' = parked.page_number
    /\ requests' = parked.requests
    /\ responses' = parked.responses
    /\ outcome' = parked.outcome
    /\ UNCHANGED boundaryVars

\* The other thread is scheduled: every parameter and local is the thread's
\* own.
Switch ==
    /\ running' = 3 - running
    /\ parked' = Frame
    /\ pc' = parked.pc
    /\ call' = parked.call
    /\ filters' = parked.filters
    /\ structure' = parked.structure
    /\ as_csv' = parked.as_csv
    /\ api_params' = parked.api_params
    /\ data' = parked.data
    /\ page_number' = parked.page_number
    /\ requests' = parked.requests
    /\ responses' = parked.responses
    /\ outcome' = parked.outcome
    /\ UNCHANGED boundaryVars

\* The arguments and answers of the two calls: a JSON call and a CSV call
\* with different filters and structures (both calls may pick the same).
TwoCallArgs ==
    { [filters |-> <<F_nation, F_code>>, structure |-> S_flat, as_csv |-> FALSE],
      [filters |-> <<F_region, F_region>>, structure |-> S_nested, as_csv |-> TRUE] }

TwoCallResponses ==
    IF as_csv
    THEN { Response(200, Render(<<Hdr, Row1>>) \o <<NL>>, FALSE, NoDoc),
           Response(NO_CONTENT, <<>>, FALSE, NoDoc),
           Response(404, <<"Not Found">>, FALSE, NoDoc) }
    ELSE { Response(200, <<"{json}">>, TRUE, Doc(TRUE, <<R1>>, TRUE, TRUE, Cursor)),
           Response(200, <<"{json}">>, TRUE, Doc(TRUE, <<R2, R1>>, TRUE, TRUE, None)),
           Response(200, <<"{json}">>, TRUE, Doc(TRUE, <<R1>>, TRUE, FALSE, None)),
           Response(404, <<"Not Found">>, FALSE, NoDoc) }

NextTwo ==
    \/ \E a \in TwoCallArgs :
          get_paginated_dataset(a.filters, a.structure, a.as_csv)
    \/ IssueRequest
    \/ GetRaises("Timeout")
    \/ \E r \in TwoCallResponses : HandleResponse(r)
    \/ Switch

SpecTwo == Init /\ [][NextTwo]_vars

----------------------------------------------------------------------------
(* coronaviz.backend.data.uk.nhs_regions / uk_regions: the class body of   *)
(* NHSBoundaryData and of RegionalBoundaryData, run when the module is     *)
(* imported.  Both bodies are the same code over their own filepath and    *)
(* source_url.                                                             *)

\* Class bodies executed to their end that the model follows.
MaxLoads == 3

BoundaryClasses == { "NHSBoundaryData", "RegionalBoundaryData" }

filepath(c) ==
    IF c = "NHSBoundaryData" THEN "nhs_regions.geojson" ELSE "regions.geojson"

\* GeoJSON documents, as dicts.
G_nhs == <<StrItem("type", "FeatureCollection"), StrItem("name", "NHS_Regions")>>
G_regions == <<StrItem("type", "FeatureCollection"),
               DictItem("crs", <<StrItem("type", "name")>>)>>
GeoDocs == { G_nhs, G_regions }

\* json.dump(data, f): the default separators.
JsonDump(doc) == Dumps(doc, <<",", SP>>, <<":", SP>>)

\* json.loads / json.load: whitespace between tokens is skipped; a text that
\* is no JSON document raises.
IsToken(a) == a \notin Whitespace
JsonLoads(text) ==
    LET tokens == SelectSeq(text, IsToken)
        parses == { d \in GeoDocs : Dumps(d, <<",">>, <<":">>) = tokens }
    IN  IF parses = {} THEN [ok |-> FALSE, doc |-> <<>>]
        ELSE [ok |-> TRUE, doc |-> CHOOSE d \in parses : TRUE]

\* Bodies source_url answers with: a compact document, an indented one, and
\* a page that is not JSON.
SourceTexts ==
    { Dumps(G_nhs, <<",">>, <<":">>),
      Dumps(G_regions, <<",", NL>>, <<":", SP>>),
      <<"<html>">> }

\* A cache file as a run may find it: missing, or put there indented.
CacheStates == { Absent, File(Dumps(G_nhs, <<",", NL>>, <<":", SP>>)) }

\* The record of one executed class body.
Load(c, b, a, n, ok, d) ==
    [cls |-> c, before |-> b, after |-> a, downloads |-> n, ok |-> ok, data |-> d]

InitBoundary ==
    /\ NoCall /\ OneCall
    /\ files \in [Filepaths -> CacheStates]
    /\ lpc = "idle"
    /\ cls = ""
    /\ boundary_data = <<>>
    /\ loads = <<>>

\* The try clause: data = json.load(open(filepath)).  A missing file raises
\* IOError, which is caught; a file that is no JSON raises a ValueError,
\* which is not.
ClassBody(c) ==
    /\ lpc \in {"idle", "loaded", "failed"}
    /\ Len(loads) < MaxLoads
    /\ cls' = c
    /\ LET f == files[filepath(c)]
           r == JsonLoads(f.text)
       IN  IF ~f.exists
           THEN /\ lpc' = "except"
                /\ boundary_data' = <<>>
                /\ UNCHANGED loads
           ELSE IF r.ok
           THEN /\ lpc' = "loaded"
                /\ boundary_data' = r.doc
                /\ loads' = Append(loads, Load(c, f, f, 0, TRUE, r.doc))
           ELSE /\ lpc' = "failed"
                /\ boundary_data' = <<>>
                /\ loads' = Append(loads, Load(c, f, f, 0, FALSE, <<>>))
    /\ UNCHANGED files
    /\ UNCHANGED <<callVars, threadVars>>

\* requests.get(source_url) raises.
DownloadRaises ==
    /\ lpc = "except"
    /\ lpc' = "failed"
    /\ loads' = Append(loads, Load(cls, files[filepath(cls)],
                                   files[filepath(cls)], 1, FALSE, <<>>))
    /\ UNCHANGED <<files, cls, boundary_data>>
    /\ UNCHANGED <<callVars, threadVars>>

\* (variant) the document is parsed but never written.
DownloadReturnsNoDump(text) ==
    /\ lpc = "except"
    /\ LET path == filepath(cls)
           r == JsonLoads(text)
       IN  /\ files' = [files EXCEPT ![path] = File(<<>>)]
           /\ boundary_data' = r.doc
           /\ lpc' = IF r.ok THEN "loaded" ELSE "failed"
           /\ loads' = Append(loads, Load(cls, files[path], files'[path], 1,
                                          r.ok, r.doc))
    /\ UNCHANGED cls
    /\ UNCHANGED <<callVars, threadVars>>

\* requests.get(source_url) returns; then the with block: open(filepath, 'w')
\* creates the empty file, json.loads(response.text) parses (or raises, and
\* the with statement closes the file), json.dump(data, f) writes.
DownloadReturns(text) ==
    /\ lpc = "except"
    /\ LET path == filepath(cls)
           r == JsonLoads(text)
       IN  /\ files' = [files EXCEPT
                          ![path] = IF r.ok THEN File(JsonDump(r.doc))
                                    ELSE File(<<>>)]
           /\ boundary_data' = r.doc
           /\ lpc' = IF r.ok THEN "loaded" ELSE "failed"
           /\ loads' = Append(loads, Load(cls, files[path], files'[path], 1,
                                          r.ok, r.doc))
    /\ UNCHANGED cls
    /\ UNCHANGED <<callVars, threadVars>>

NextBoundary ==
    \/ \E c \in BoundaryClasses : ClassBody(c)
    \/ DownloadRaises
    \/ \E t \in SourceTexts : DownloadReturns(t)

SpecBoundary == InitBoundary /\ [][NextBoundary]_vars

----------------------------------------------------------------------------
(* Vocabulary of the properties, stated over the logs of the call.         *)

NReq == Len(requests)
NResp == Len(responses)

\* A response the loop treats as a data page, by status.
HasDataStatus(r) == r.status_code < 400 /\ r.status_code # 204

\* A JSON page carrying data and pagination.next.
FullJsonPage(r) ==
    /\ HasDataStatus(r)
    /\ r.is_json
    /\ r.json.has_data /\ r.json.has_pagination /\ r.json.has_next

\* The records of the given pages, in page order.
RECURSIVE ConcatData(_)
ConcatData(rs) ==
    IF rs = <<>> THEN <<>>
    ELSE ConcatData(SubSeq(rs, 1, Len(rs) - 1)) \o rs[Len(rs)].json.data

Front(xs) == SubSeq(xs, 1, Len(xs) - 1)

\* The requests went to pages 1, 2, ..., n in this order.
PagesInOrder(n) == NReq = n /\ \A i \in 1..n : requests[i].page = i

\* The lines a CSV body was written from (with or without a final newline).
LinesOf(body) ==
    CHOOSE ls \in CsvPages : body \in { Render(ls), Render(ls) \o <<NL>> }

\* A CSV page made of a header line and at least one data line.
FullCsvPage(r) == HasDataStatus(r) /\ Len(LinesOf(r.text)) >= 2

\* The data lines of the given CSV pages, in page order.
RECURSIVE DataLines(_)
DataLines(rs) ==
    IF rs = <<>> THEN <<>>
    ELSE DataLines(Front(rs)) \o Tail(LinesOf(rs[Len(rs)].text))

----------------------------------------------------------------------------
\* C1: in JSON mode, once pages 1..N-1 have answered with a non-null
\* pagination.next and page N with pagination.next = null, the call has
\* returned exactly the records of pages 1..N in page order and has issued
\* exactly the N requests for pages 1..N, none after page N.
C1_JsonConcatenation ==
    ( /\ ~as_csv
      /\ NResp >= 1
      /\ \A i \in 1..NResp : FullJsonPage(responses[i])
      /\ \A i \in 1..(NResp - 1) : responses[i].json.next # None
      /\ responses[NResp].json.next = None )
    => /\ pc = "returned"
       /\ outcome = Return(ConcatData(responses))
       /\ PagesInOrder(NResp)

C1_Witness ==
    /\ ~as_csv /\ pc = "returned" /\ NResp = 3
    /\ \A i \in 1..3 : FullJsonPage(responses[i])
    /\ responses[1].json.data = <<R2, R1>>
    /\ responses[2].json.data = <<R1>>
    /\ responses[3].json.data = <<R2, R1>>
    /\ outcome.value = <<R2, R1, R1, R2, R1>>

\* C2: in CSV mode, once pages 1..K (K >= 1) have answered with a header
\* line and at least one data line and page K+1 with status 204, the call has
\* returned page 1's header followed by the data lines of pages 1..K in page
\* order, newline-joined, and has issued exactly K+1 requests.
C2_CsvConcatenation ==
    ( /\ as_csv
      /\ NResp >= 2
      /\ \A i \in 1..(NResp - 1) : FullCsvPage(responses[i])
      /\ responses[NResp].status_code = 204 )
    => /\ pc = "returned"
       /\ outcome = Return(Render(<<LinesOf(responses[1].text)[1]>>
                                  \o DataLines(Front(responses))))
       /\ PagesInOrder(NResp)

C2_Witness ==
    /\ as_csv /\ pc = "returned" /\ NResp = 3
    /\ responses[1].text = <<Hdr, NL, Row1, NL>>
    /\ responses[2].text = <<Hdr, NL, Row2, NL, Row1>>
    /\ outcome.value = <<Hdr, NL, Row1, NL, Row2, NL, Row1>>

\* C3: in both formats, once a response with status >= 400 has arrived for
\* page k, the call has raised an error carrying that response's body text,
\* has returned nothing, and has issued no request beyond the single one for
\* page k: pages 1..k were requested once each.
C3_ErrorAborts ==
    ( NResp >= 1 /\ responses[NResp].status_code >= 400 )
    => /\ pc = "raised"
       /\ outcome.kind = "raise"
       /\ outcome.exc = "RuntimeError"
       /\ outcome.message = <<"Request failed: ">> \o responses[NResp].text
       /\ outcome.value = <<>>
       /\ PagesInOrder(NResp)
       /\ \A i \in 1..(NResp - 1) : responses[i].status_code < 400

C3_Witness ==
    /\ pc = "raised" /\ NResp = 3 /\ data # <<>>
    /\ responses[3].status_code = 400
    /\ responses[3].text = <<"Not Found">>
    /\ outcome.message = <<"Request failed: ", "Not Found">>

\* The responses handled as data pages.
DataResponses == SelectSeq(responses, HasDataStatus)

IsRow(a) == a \in {Row1, Row2}
RowsIn(text) == SelectSeq(text, IsRow)

\* Every data line of the given CSV pages, in page order.
RECURSIVE AllRows(_)
AllRows(rs) ==
    IF rs = <<>> THEN <<>>
    ELSE AllRows(Front(rs)) \o RowsIn(rs[Len(rs)].text)

Last(xs) == xs[Len(xs)]

\* C4: in both formats, once page k has answered with status 204 the call has
\* returned after exactly k requests, and what it returned is made of pages
\* 1..k-1 only: their records (JSON), their blobs and data lines (CSV); a 204
\* on page 1 gives the empty result after one request.
C4_NoContentStops ==
    ( NResp >= 1 /\ Last(responses).status_code = 204 )
    => /\ pc = "returned"
       /\ outcome.kind = "return"
       /\ PagesInOrder(NResp)
       /\ NResp = 1 => outcome.value = <<>>
       /\ ~as_csv => outcome.value = ConcatData(Front(responses))
       /\ as_csv => /\ Len(data) = NResp - 1
                    /\ outcome.value = Join(<<NL>>, data)
                    /\ RowsIn(outcome.value) = AllRows(Front(responses))

C4_Witness ==
    /\ pc = "returned" /\ NResp = 3 /\ as_csv
    /\ Last(responses).status_code = 204
    /\ RowsIn(outcome.value) = <<Row1, Row2, Row1>>

\* C5: a call never ends with a partial result.  It ends either raised, with
\* nothing returned, or returned, with every data page it received
\* aggregated; and when a GET produces no response (timeout, connection
\* failure) the call has raised that failure and returned nothing.
C5_NoPartialResult ==
    /\ pc \in {"idle", "loop", "get"} => outcome = Pending
    /\ pc = "raised" => outcome.kind = "raise" /\ outcome.value = <<>>
    /\ pc = "returned" =>
          /\ outcome.kind = "return"
          /\ NReq = NResp
          /\ ~as_csv => outcome.value = ConcatData(DataResponses)
          /\ as_csv => /\ Len(data) = Len(DataResponses)
                       /\ outcome.value = Join(<<NL>>, data)
                       /\ RowsIn(outcome.value) = AllRows(DataResponses)
    /\ (NReq > NResp /\ pc # "get") =>
          /\ pc = "raised"
          /\ outcome.kind = "raise"
          /\ outcome.exc \in GetExceptions
          /\ outcome.value = <<>>

C5_Witness ==
    /\ pc = "raised" /\ outcome.exc = "Timeout"
    /\ NReq = 3 /\ NResp = 2 /\ data # <<>>

\* C6: every request of a call carries filters = the given predicates joined
\* with ';' in the given order, structure = the compact serialization of the
\* given structure, and format = 'csv' exactly when as_csv; successive
\* requests differ in the page parameter only.
C6_FixedParameters ==
    \A i \in 1..NReq :
        /\ DOMAIN requests[i] = {"filters", "structure", "format", "page"}
        /\ requests[i].filters = Join(<<";">>, filters)
        /\ filters = <<F_nation, F_code>> =>
              requests[i].filters =
                  <<"areaType=", "nation", ";", "areaCode=", "E92000001">>
        /\ filters = <<F_region, F_region>> =>
              requests[i].filters =
                  <<"areaType=", "region", ";", "areaType=", "region">>
        /\ requests[i].structure = Dumps(structure, <<",">>, <<":">>)
        /\ structure = S_flat =>
              requests[i].structure =
                  <<"{", "\"", "date", "\"", ":", "\"", "date", "\"", ",",
                    "\"", "name", "\"", ":", "\"", "areaName", "\"", "}">>
        /\ SP \notin { requests[i].structure[j] :
                          j \in 1..Len(requests[i].structure) }
        /\ requests[i].format = (IF as_csv THEN "csv" ELSE "json")
        /\ i > 1 =>
              /\ \A k \in {"filters", "structure", "format"} :
                    requests[i][k] = requests[i - 1][k]
              /\ requests[i].page # requests[i - 1].page

C6_Witness ==
    /\ NReq = 3 /\ as_csv
    /\ filters = <<F_nation, F_code>>
    /\ structure = S_nested
    /\ requests[3].format = "csv"
    /\ requests[3].page = 3

\* C7: a CSV call that has returned received a 204 as its last response, one
\* request after its last data page; a JSON call whose last page had
\* pagination.next = null has returned with no request after that page.
C7_CsvNeedsTrailing204 ==
    /\ (as_csv /\ pc = "returned") =>
          /\ NResp >= 1
          /\ Last(responses).status_code = 204
          /\ \A i \in 1..(NResp - 1) : HasDataStatus(responses[i])
          /\ NReq = Len(DataResponses) + 1
    /\ ( /\ ~as_csv /\ NResp >= 1
         /\ FullJsonPage(Last(responses))
         /\ Last(responses).json.next = None ) =>
          /\ pc = "returned"
          /\ NReq = Len(DataResponses)

C7_Witness ==
    /\ as_csv /\ pc = "returned" /\ NReq = 3
    /\ Len(DataResponses) = 2
    /\ responses[2].text = <<>>

\* C8: a call entered through get_latest_data is a JSON-mode paginated fetch
\* with filters ['areaType=region'] when none were given, the default
\* structure when none was given, the caller's filters and structure
\* otherwise; what it returns is the paginated fetch's aggregate.
C8_LatestData ==
    (call.entry = "get_latest_data") =>
        /\ ~as_csv
        /\ filters = (IF call.filters.is_none
                      THEN << <<"areaType=", "region">> >>
                      ELSE call.filters.value)
        /\ structure = (IF call.structure.is_none
                        THEN DEFAULT_QUERY_STRUCTURE
                        ELSE call.structure.value)
        /\ \A i \in 1..NReq :
              /\ requests[i].format = "json"
              /\ call.filters.is_none =>
                    requests[i].filters = <<"areaType=", "region">>
              /\ requests[i].structure = Dumps(structure, <<",">>, <<":">>)
        /\ pc = "returned" => outcome = Return(ConcatData(DataResponses))

C8_Witness ==
    /\ call.entry = "get_latest_data"
    /\ call.filters.is_none /\ ~call.structure.is_none
    /\ pc = "returned" /\ NResp = 2 /\ outcome.value # <<>>

\* Whether the page's pagination.next can be looked up.
NextPresent(r) == r.json.has_pagination /\ r.json.has_next

\* A JSON page whose records have been appended.
Appended(r) == HasDataStatus(r) /\ r.is_json /\ r.json.has_data

\* C9 as stated: in JSON mode, after a page's records have been appended the
\* call has returned all records accumulated so far, with no further request,
\* if the page's pagination.next is null or absent.
C9_NullOrAbsentStops ==
    ( /\ ~as_csv /\ NResp >= 1
      /\ Appended(Last(responses))
      /\ (~NextPresent(Last(responses)) \/ Last(responses).json.next = None) )
    => /\ pc = "returned"
       /\ outcome = Return(ConcatData(responses))
       /\ NReq = NResp

\* C9 amended: in JSON mode, after a page's records have been appended, a
\* null pagination.next ends the call successfully with all records
\* accumulated so far and no further request; an absent pagination.next makes
\* the call raise the lookup error, returning nothing and requesting nothing
\* further; any other value makes it request the next page number.
C9_NextDecides ==
    ( ~as_csv /\ NResp >= 1 /\ Appended(Last(responses)) )
    => LET r == Last(responses)
       IN  /\ (NextPresent(r) /\ r.json.next = None) =>
                 /\ pc = "returned"
                 /\ outcome = Return(ConcatData(responses))
                 /\ NReq = NResp
           /\ (NextPresent(r) /\ r.json.next # None) =>
                 /\ outcome.kind # "return"
                 /\ data = ConcatData(responses)
                 /\ \/ pc = "loop" /\ page_number = NResp + 1 /\ NReq = NResp
                    \/ /\ pc \in {"get", "raised"}
                       /\ NReq = NResp + 1
                       /\ Last(requests).page = NResp + 1
           /\ ~NextPresent(r) =>
                 /\ pc = "raised"
                 /\ outcome.kind = "raise"
                 /\ outcome.exc = "KeyError"
                 /\ outcome.value = <<>>
                 /\ NReq = NResp

C9_Witness ==
    /\ ~as_csv /\ pc = "raised" /\ NResp = 2
    /\ Appended(Last(responses))
    /\ Last(responses).json.has_pagination
    /\ ~Last(responses).json.has_next
    /\ outcome.exc = "KeyError" /\ outcome.message = <<"next">>
    /\ data = <<R1, R2, R1>>

\* C10: in JSON mode, a page with a data status whose body is not JSON, or
\* lacks data or pagination.next, makes the call raise the parse or lookup
\* failure at that page: no later page is requested and no records are
\* returned.
C10_MalformedPageRaises ==
    ( /\ ~as_csv /\ NResp >= 1
      /\ HasDataStatus(Last(responses))
      /\ ~FullJsonPage(Last(responses)) )
    => LET r == Last(responses)
       IN  /\ pc = "raised"
           /\ outcome.kind = "raise"
           /\ outcome.value = <<>>
           /\ outcome.exc = (IF ~r.is_json THEN "JSONDecodeError" ELSE "KeyError")
           /\ (r.is_json /\ ~r.json.has_data) => outcome.message = <<"data">>
           /\ PagesInOrder(NResp)

C10_Witness ==
    /\ ~as_csv /\ pc = "raised" /\ NResp = 2
    /\ responses[1].json.data = <<R2, R1>>
    /\ Last(responses).is_json /\ ~Last(responses).json.has_data
    /\ outcome.exc = "KeyError" /\ outcome.message = <<"data">>

\* The call has ended.
Terminated == pc \in {"returned", "raised"}

\* C11: the requests of a call are for pages 1, 2, 3, ... in this order, none
\* twice and none skipped, and at most one request is outstanding: request
\* k+1 exists only when the responses to pages 1..k have all been received
\* and processed as pages that continue the walk.
C11_SequentialPages ==
    /\ \A i \in 1..NReq : requests[i].page = i
    /\ NResp <= NReq /\ NReq <= NResp + 1
    /\ (pc = "get") => (NReq = NResp + 1 /\ page_number = NReq)
    /\ (pc = "loop") => (NReq = NResp /\ page_number = NReq + 1)
    /\ (NReq = NResp + 1) => pc \in {"get", "raised"}
    /\ \A i \in 1..NResp :
          (i < NReq) =>
              /\ HasDataStatus(responses[i])
              /\ ~as_csv => ( /\ FullJsonPage(responses[i])
                             /\ responses[i].json.next # None )
              /\ Len(data) >= (IF as_csv THEN i ELSE 0)

C11_Witness ==
    /\ pc = "get" /\ NReq = 3 /\ NResp = 2
    /\ requests[1].page = 1 /\ requests[2].page = 2 /\ requests[3].page = 3

\* The lines the CSV result should consist of: the first page's header (when
\* the first page has a line at all) and then every page's lines after its
\* first, in page order.
RECURSIVE LinesAfterFirst(_)
LinesAfterFirst(rs) ==
    IF rs = <<>> THEN <<>>
    ELSE LET ls == LinesOf(Last(rs).text)
         IN  LinesAfterFirst(Front(rs)) \o (IF ls = <<>> THEN <<>> ELSE Tail(ls))

ExpectedCsvLines(rs) ==
    IF rs = <<>> THEN <<>>
    ELSE LET first == LinesOf(rs[1].text)
         IN  (IF first = <<>> THEN <<>> ELSE <<first[1]>>) \o LinesAfterFirst(rs)

\* C12: for every sequence of CSV pages, header-only and empty pages
\* included, the CSV result is exactly the first page's header followed by
\* the data lines of all pages in page order, newline-joined, with no blank
\* line and no leading or trailing newline.
C12_CsvExactLines ==
    (as_csv /\ pc = "returned")
    => outcome.value = Render(ExpectedCsvLines(DataResponses))

\* C17: the status code alone decides how a response is handled.  Any status
\* below 400 other than 204 (399 as well as 200) is processed as a data page:
\* its body is merged into data and paging goes on by the format's rule; 204
\* always ends the call successfully; a status >= 400 always raises the
\* RuntimeError; and the three ways exclude each other.
C17_StatusDecides ==
    (NResp >= 1) =>
        LET r == Last(responses)
        IN  /\ (r.status_code >= 400) =>
                  /\ pc = "raised"
                  /\ outcome.exc = "RuntimeError"
                  /\ NReq = NResp
            /\ (r.status_code = 204) =>
                  /\ pc = "returned"
                  /\ outcome.exc # "RuntimeError"
                  /\ NReq = NResp
            /\ (HasDataStatus(r) /\ as_csv) =>
                  /\ Len(data) = NResp
                  /\ RowsIn(Last(data)) = RowsIn(r.text)
                  /\ page_number = NResp + 1
                  /\ outcome.kind # "return"
                  /\ outcome.exc # "RuntimeError"
            /\ (HasDataStatus(r) /\ ~as_csv) =>
                  /\ outcome.exc # "RuntimeError"
                  /\ FullJsonPage(r) =>
                        /\ data = ConcatData(responses)
                        /\ (r.json.next = None) => pc = "returned"
                        /\ (r.json.next # None) =>
                              (page_number = NResp + 1 /\ outcome.kind # "return")

C17_Witness ==
    /\ ~as_csv /\ pc = "returned" /\ NResp = 2
    /\ responses[1].status_code = 399
    /\ responses[2].status_code = 399
    /\ outcome.value = <<R1, R1>>

\* C13: against a server that answers every page beyond some bound with 204
\* or a status >= 400, and with every GET coming back, every call eventually
\* returns or raises, in both formats; and in CSV mode every handled data
\* page advances the page number by one, the loop being left only on a 204,
\* on an error status or on a failed GET.
C13_Terminates ==
    /\ (pc # "idle") ~> Terminated
    /\ [][ (as_csv /\ pc = "get") =>
             \/ /\ pc' = "loop"
                /\ page_number' = page_number + 1
                /\ HasDataStatus(Last(responses'))
             \/ /\ pc' = "returned"
                /\ Last(responses').status_code = 204
             \/ /\ pc' = "raised"
                /\ \/ responses' = responses
                   \/ Last(responses').status_code >= 400 ]_vars

C13_Witness ==
    /\ as_csv /\ pc = "returned"
    /\ NResp = LastDataPage + 1
    /\ Len(data) = LastDataPage
    /\ Last(responses).status_code = 204

\* The loads of the same class after load i.
LaterLoads(i) == { j \in (i + 1)..Len(loads) : loads[j].cls = loads[i].cls }

\* C15: a boundary-data load whose cache file can be opened makes no download
\* and leaves the file as it was; a load whose cache file is absent makes
\* exactly one download, and when that yields a document the file then holds
\* that document, and every later load of the class reads it from the file,
\* with no download and the file untouched.
C15_CacheElseFetchOnce ==
    /\ \A i \in 1..Len(loads) :
          LET l == loads[i]
          IN  /\ l.before.exists => (l.downloads = 0 /\ l.after = l.before)
              /\ ~l.before.exists => l.downloads = 1
              /\ (~l.before.exists /\ l.ok) =>
                    /\ l.after.exists
                    /\ JsonLoads(l.after.text) = [ok |-> TRUE, doc |-> l.data]
                    /\ \A j \in LaterLoads(i) :
                          /\ loads[j].before = l.after
                          /\ loads[j].after = l.after
                          /\ loads[j].downloads = 0
                          /\ loads[j].ok
                          /\ loads[j].data = l.data
    /\ (lpc \in {"loaded", "failed"}) =>
          /\ files[filepath(cls)] = Last(loads).after
          /\ Last(loads).cls = cls
          /\ (lpc = "loaded") =>
                (Last(loads).ok /\ boundary_data = Last(loads).data)

C15_Witness ==
    /\ Len(loads) = 3 /\ lpc = "loaded"
    /\ \A i \in 1..3 : loads[i].cls = "RegionalBoundaryData"
    /\ ~loads[1].before.exists /\ ~loads[1].ok
    /\ ~loads[2].before.exists /\ loads[2].ok /\ loads[2].downloads = 1
    /\ loads[3].downloads = 0 /\ loads[3].data = G_regions
    /\ files["regions.geojson"] = File(JsonDump(G_regions))

\* C16: a boundary-data load that fails, because the download fails or its
\* body is no valid JSON, leaves the cache file as it was before the load.
C16_FailedLoadKeepsCache ==
    \A i \in 1..Len(loads) :
        ~loads[i].ok => loads[i].after = loads[i].before

\* A call run alone: its locals after the loop body has handled the given
\* response.
StepAlone(csv, st, r) ==
    IF st.outcome # Pending THEN st
    ELSE IF r.status_code >= 400
    THEN [st EXCEPT !.outcome = Raise("RuntimeError", <<"Request failed: ">> \o r.text)]
    ELSE IF r.status_code = 204
    THEN [st EXCEPT !.outcome = Return(IF csv THEN Join(<<NL>>, st.data) ELSE st.data)]
    ELSE IF csv
    THEN [st EXCEPT !.data = Append(@, CsvBlob(r.text, st.page_number)),
                    !.page_number = @ + 1]
    ELSE IF ~r.is_json
    THEN [st EXCEPT !.outcome = Raise("JSONDecodeError", <<>>)]
    ELSE IF ~r.json.has_data
    THEN [st EXCEPT !.outcome = Raise("KeyError", <<"data">>)]
    ELSE LET d == st.data \o r.json.data
         IN  IF ~r.json.has_pagination
             THEN [st EXCEPT !.data = d, !.outcome = Raise("KeyError", <<"pagination">>)]
             ELSE IF ~r.json.has_next
             THEN [st EXCEPT !.data = d, !.outcome = Raise("KeyError", <<"next">>)]
             ELSE IF r.json.next = None
             THEN [st EXCEPT !.data = d, !.outcome = Return(d)]
             ELSE [st EXCEPT !.data = d, !.page_number = @ + 1]

\* A call run alone against the given responses, in order.
RECURSIVE RunAlone(_, _)
RunAlone(csv, rs) ==
    IF rs = <<>> THEN [data |-> <<>>, page_number |-> 1, outcome |-> Pending]
    ELSE StepAlone(csv, RunAlone(csv, Front(rs)), Last(rs))

\* The frame is that of the call run alone with the frame's arguments against
\* the frame's responses: the same requests, the same locals, the same end.
AsAlone(fr) ==
    (fr.pc # "idle") =>
        LET st == RunAlone(fr.as_csv, fr.responses)
            n == Len(fr.requests)
        IN  /\ fr.filters = fr.call.filters.value
            /\ fr.structure = fr.call.structure.value
            /\ \A i \in 1..n :
                  fr.requests[i] =
                      [filters |-> Join(<<";">>, fr.filters),
                       structure |-> Dumps(fr.structure, <<",">>, <<":">>),
                       format |-> (IF fr.as_csv THEN "csv" ELSE "json"),
                       page |-> i]
            /\ fr.data = st.data
            /\ (fr.pc = "loop") =>
                  /\ st.outcome = Pending /\ fr.outcome = Pending
                  /\ fr.page_number = st.page_number
                  /\ n = Len(fr.responses) /\ n = st.page_number - 1
            /\ (fr.pc = "get") =>
                  /\ st.outcome = Pending /\ fr.outcome = Pending
                  /\ fr.page_number = st.page_number
                  /\ n = Len(fr.responses) + 1 /\ n = st.page_number
            /\ (fr.pc = "returned") =>
                  /\ fr.outcome = st.outcome /\ fr.outcome.kind = "return"
                  /\ n = Len(fr.responses)
            /\ (fr.pc = "raised") =>
                  \/ /\ fr.outcome = st.outcome /\ fr.outcome.kind = "raise"
                     /\ n = Len(fr.responses)
                  \/ /\ st.outcome = Pending
                     /\ fr.outcome = Raise("Timeout", <<>>)
                     /\ n = Len(fr.responses) + 1

\* C14: two calls interleaved in any way, with the same or different
\* arguments, do not affect each other: each call's requests, locals and
\* outcome are those of the call run alone against the responses it received.
C14_CallsIndependent == AsAlone(Frame) /\ AsAlone(parked)

C14_Witness ==
    /\ running = 2
    /\ as_csv /\ pc = "returned" /\ Len(data) = 2
    /\ ~parked.as_csv /\ parked.pc = "get"
    /\ Len(parked.requests) = 2 /\ parked.data = <<R1>>

====
